---- MODULE Spec2Model ----
(***************************************************************************)
(* Model of audiom-embedder: the cross-frame message handler               *)
(* (AudiomMessages.ts), the embed configuration serializer                 *)
(* (AudiomEmbedConfig.ts, AudiomSource.ts) and the step size parser        *)
(* (StepSize.ts).                                                          *)
(***************************************************************************)
EXTENDS Integers, Sequences, FiniteSets, TLC

VARIABLES
    \* ---- AudiomMessageHandler (AudiomMessages.ts) ----
    allowedOrigin,    \* the constructor's origin filter: [def, v]
    listeners,        \* Set<listener>, as the sequence of its members in insertion order
    messageListener,  \* TRUE iff this.messageListener holds a closure
    subscriptions,    \* number of closures of this handler attached to window 'message'
    pc,               \* "idle" | "forEach" (between two callbacks) | "callback" (inside one)
    visited,          \* forEach cursor: number of members of listeners before the cursor
    ev,               \* the last inbound event: [seen, origin, data]
    calls,            \* callback invocations made for the last event: [cb, arg]
    thrown,           \* TRUE iff the handling of the last event ended with an error
    ops,              \* handler methods called by callbacks so far in the running dispatch
    \* history of the API calls, kept for the statements about them
    regOrder,         \* callbacks whose latest add/remove call was an add, oldest such add first
    firstReg,         \* callbacks in the order of their first registration ever
    atEvent,          \* listeners when the last event arrived
    interfered,       \* TRUE iff a callback threw or called a handler method during the last dispatch
    \* ---- AudiomEmbedConfig (AudiomEmbedConfig.ts, AudiomSource.ts) ----
    cfgIn,            \* the IAudiomEmbedConfig (or Partial of it) the caller holds
    cvia,             \* how the configuration was built: [by, embedId, apiKey, keys]
    cres,             \* the constructor's outcome: NotRun, Ok(configuration) or Err(error)
    cparams,          \* the outcome of toQueryParams(): NotRun or Ok(params)
    curl,             \* the outcome of toUrl(): NotRun or Ok([base, url, withBase])
    cown,             \* what the caller changed in its own objects after the construction,
                      \* and the configuration as it was before that: [mutated, built]
    \* ---- AudiomSource (AudiomSource.ts) ----
    ain,              \* the IAudiomSource (or the arguments of a factory) the caller holds
    asrc,             \* the AudiomSource built: [by, v], by = "none" before
    aparams,          \* the outcome of its toQueryParams(): NotRun or Ok(params)
    \* ---- StepSize (StepSize.ts) ----
    stext,            \* the text given to StepSize.parse, or returned by toString
    sres,             \* the outcome of the last call that returns a StepSize:
                      \* NotRun, Ok(step size) or Err(error)
    sop               \* the last StepSize call: [op, unit, value, before, this, from]

hvars == <<allowedOrigin, listeners, messageListener, subscriptions, pc, visited, ev,
           calls, thrown, ops, regOrder, firstReg, atEvent, interfered>>

cvars == <<cfgIn, cvia, cres, cparams, curl, cown>>

svars == <<stext, sres, sop>>

avars == <<ain, asrc, aparams>>

vars == <<hvars, cvars, svars, avars>>

\* ---------------------------------------------------------------- bounds
NumCallbacks == 2      \* distinct callback identities
MaxCalls == 3          \* callback invocations followed per event
MaxOps == 2            \* handler methods the callbacks may call during one dispatch
MaxTextLen == 4        \* characters of a text given to StepSize.parse

Callbacks == 1..NumCallbacks

\* ------------------------------------------------------------ sequences
Range(s) == {s[i] : i \in 1..Len(s)}

IndexOf(s, x) == CHOOSE i \in 1..Len(s) : s[i] = x

RemoveAt(s, i) == SubSeq(s, 1, i - 1) \o SubSeq(s, i + 1, Len(s))

RECURSIVE Filter(_, _)
Filter(s, S) ==
    IF s = <<>> THEN <<>>
    ELSE IF Head(s) \in S THEN <<Head(s)>> \o Filter(Tail(s), S)
    ELSE Filter(Tail(s), S)

\* ------------------------------------------------------------ JS values
\* An event payload: kind is the JS type of event.data; an object may carry
\* the userPosition field; the field is an array (of elems) or something else.
\* An element is [num, v]: a number v, or a non-number (a string) when ~num.
Num(n) == [num |-> TRUE, v |-> n]
NonNum(n) == [num |-> FALSE, v |-> n]

Prim(k, n) == [kind |-> k, n |-> n, hasField |-> FALSE, isArray |-> FALSE, elems |-> <<>>]
Obj(hasField, isArray, elems) ==
    [kind |-> "object", n |-> 0, hasField |-> hasField, isArray |-> isArray, elems |-> elems]

Payloads ==
    { Prim("null", 0), Prim("undefined", 0), Prim("number", 5), Prim("string", 3),
      Obj(FALSE, FALSE, <<>>),                   \* {}
      Obj(TRUE, FALSE, <<>>),                    \* {userPosition: "1,2"}
      Obj(TRUE, TRUE, <<Num(1)>>),               \* {userPosition: [1]}
      Obj(TRUE, TRUE, <<Num(1), Num(2), Num(3)>>),
      Obj(TRUE, TRUE, <<Num(1), Num(2)>>),       \* {userPosition: [1, 2]}
      Obj(TRUE, TRUE, <<NonNum(1), NonNum(2)>>) } \* {userPosition: ["a", "b"]}

\* JS truthiness of a payload: null, undefined, 0 and "" are falsy.
Truthy(m) ==
    \/ m.kind = "object"
    \/ m.kind \in {"number", "string"} /\ m.n # 0

\* Array.isArray(message.userPosition): a property read on a primitive or on
\* an object without the field gives undefined, which is no array.
ArrayIsArrayUserPosition(m) == m.kind = "object" /\ m.hasField /\ m.isArray

isUserPositionMessage(message) ==
    /\ Truthy(message)
    /\ ArrayIsArrayUserPosition(message)
    /\ Len(message.elems) = 2

\* The payload shape of the interface IAudiomUserPositionMessage:
\* userPosition is a Coordinates, a pair of numbers.
ValidPosition(m) ==
    /\ m.kind = "object" /\ m.hasField /\ m.isArray
    /\ Len(m.elems) = 2
    /\ \A i \in 1..2 : m.elems[i].num

\* ------------------------------------------------------------- origins
Origins == {"https://a", "https://b"}

NoOrigin == [def |-> FALSE, v |-> ""]
Origin(s) == [def |-> TRUE, v |-> s]

\* The guard of the messageListener closure: JS truthiness of the filter
\* string, then strict inequality.
OriginRejected(allowed, origin) ==
    /\ allowed.def /\ allowed.v # ""
    /\ origin # allowed.v

\* ------------------------------------------------ AudiomMessageHandler
\* The handler's fields as one value h, so that each method is a function
\* from fields to fields: [listeners, visited, messageListener, subscriptions].
Handler ==
    [listeners |-> listeners, visited |-> visited,
     messageListener |-> messageListener, subscriptions |-> subscriptions]

\* Set.prototype.add: no-op when present, else appended (after the cursor
\* of a running forEach, which therefore reaches it).
SetAdd(h, l) ==
    IF l \in Range(h.listeners) THEN h
    ELSE [h EXCEPT !.listeners = Append(@, l)]

\* Set.prototype.delete: a member before the cursor of a running forEach
\* leaves the cursor on the same next member.
SetDelete(h, l) ==
    IF l \notin Range(h.listeners) THEN h
    ELSE LET i == IndexOf(h.listeners, l) IN
         [h EXCEPT !.listeners = RemoveAt(@, i),
                   !.visited = IF i <= @ THEN @ - 1 ELSE @]

SetClear(h) == [h EXCEPT !.listeners = <<>>, !.visited = 0]

ensureListeningUnguarded(h) ==
    [h EXCEPT !.messageListener = TRUE, !.subscriptions = @ + 1]

ensureListening(h) ==
    IF h.messageListener THEN h
    ELSE [h EXCEPT !.messageListener = TRUE, !.subscriptions = @ + 1]

stopListening(h) ==
    IF h.messageListener
    THEN [h EXCEPT !.messageListener = FALSE, !.subscriptions = @ - 1]
    ELSE h

addUserPositionListener(h, l) == ensureListening(SetAdd(h, l))

removeUserPositionListenerKeepsListening(h, l) == SetDelete(h, l)

removeUserPositionListener(h, l) ==
    LET h1 == SetDelete(h, l) IN
    IF Len(h1.listeners) = 0 THEN stopListening(h1) ELSE h1

removeAllListenersKeepsSet(h) == stopListening(h)

removeAllListeners(h) == stopListening(SetClear(h))

dispose(h) == removeAllListeners(h)

\* ------------------------------------------------- JS numbers, strings
\* A JS number, as the decimal m * 10^(-e) in normal form: m has no
\* trailing zero, and zero is Dec(0, 0). (Binary rounding is left out: the
\* numbers used have few digits.)
RECURSIVE NormDec(_, _)
NormDec(m, e) ==
    IF m = 0 THEN [m |-> 0, e |-> 0]
    ELSE IF m % 10 = 0 THEN NormDec(m \div 10, e - 1)
    ELSE [m |-> m, e |-> e]

Dec(m, e) == NormDec(m, e)

Abs(n) == IF n < 0 THEN -n ELSE n

RECURSIVE Concat(_)
Concat(ss) == IF ss = <<>> THEN "" ELSE Head(ss) \o Concat(Tail(ss))

RECURSIVE DigitsOf(_)
DigitsOf(n) ==
    IF n < 10 THEN <<ToString(n)>>
    ELSE Append(DigitsOf(n \div 10), ToString(n % 10))

Zeros(n) == [i \in 1..n |-> "0"]

\* NaN, the one number for which every comparison is false.
NaN == [m |-> 0, e |-> 0, nan |-> TRUE]

IsNaN(x) == "nan" \in DOMAIN x

\* A quotient that is no finite decimal is kept exact, as (m / d) * 10^(-e)
\* with d > 1 prime to 10 and to m; a finite decimal has no field d.
Den(x) == IF "d" \in DOMAIN x THEN x.d ELSE 1

RECURSIVE GCD(_, _)
GCD(a, b) == IF b = 0 THEN a ELSE GCD(b, a % b)

RECURSIVE NormRat(_, _, _)
NormRat(m, d, e) ==
    IF m = 0 THEN [m |-> 0, e |-> 0]
    ELSE IF m % 10 = 0 THEN NormRat(m \div 10, d, e - 1)
    ELSE IF GCD(Abs(m), d) > 1 THEN NormRat(m \div GCD(Abs(m), d), d \div GCD(Abs(m), d), e)
    ELSE IF d % 2 = 0 THEN NormRat(5 * m, d \div 2, e + 1)
    ELSE IF d % 5 = 0 THEN NormRat(2 * m, d \div 5, e + 1)
    ELSE IF d = 1 THEN [m |-> m, e |-> e]
    ELSE [m |-> m, e |-> e, d |-> d]

\* x * y and x / y of JS numbers, as the exact product and quotient
\* (rounding to binary64, overflow and underflow are left out); NaN if an
\* operand is NaN. The divisors used are positive.
Times(x, y) ==
    IF IsNaN(x) \/ IsNaN(y) THEN NaN
    ELSE LET g1 == GCD(Abs(x.m), Den(y))
             g2 == GCD(Abs(y.m), Den(x))
         IN NormRat((x.m \div g1) * (y.m \div g2), (Den(x) \div g2) * (Den(y) \div g1), x.e + y.e)

Over(x, y) ==
    IF IsNaN(x) \/ IsNaN(y) THEN NaN
    ELSE Times(x, [m |-> Den(y), e |-> -y.e, d |-> y.m])

\* x <= 0 and x > 0 of JS numbers: both false of NaN.
LessOrEqualZero(x) == ~IsNaN(x) /\ x.m <= 0

GreaterThanZero(x) == ~IsNaN(x) /\ x.m > 0

\* Number::toString (radix 10), as the characters of the string: with k
\* digits d and the decimal point after the n-th digit, plain digits for
\* 0 < n <= 21, "0.000ddd" for -6 < n <= 0, else the exponent form.
NumberChars(x) ==
    IF IsNaN(x) THEN <<"N", "a", "N">>
    ELSE IF x.m = 0 THEN <<"0">>
    ELSE
      LET d == DigitsOf(Abs(x.m))
          k == Len(d)
          n == k - x.e
          sign == IF x.m < 0 THEN <<"-">> ELSE <<>>
          body ==
            IF k <= n /\ n <= 21 THEN d \o Zeros(n - k)
            ELSE IF 0 < n /\ n <= 21
              THEN SubSeq(d, 1, n) \o <<".">> \o SubSeq(d, n + 1, k)
            ELSE IF -6 < n /\ n <= 0
              THEN <<"0", ".">> \o Zeros(-n) \o d
            ELSE LET ex == n - 1
                     es == <<(IF ex < 0 THEN "-" ELSE "+")>> \o DigitsOf(Abs(ex))
                 IN IF k = 1 THEN <<d[1], "e">> \o es
                    ELSE <<d[1], ".">> \o SubSeq(d, 2, k) \o <<"e">> \o es
      IN sign \o body

NumberToString(x) == Concat(NumberChars(x))

\* Values of Record<string, string | number | boolean>.
JSStr(str) == [t |-> "string", s |-> str]
JSNum(x) == [t |-> "number", n |-> x]
JSBool(b) == [t |-> "boolean", b |-> b]

\* String(value)
String(value) ==
    CASE value.t = "string" -> value.s
      [] value.t = "number" -> NumberToString(value.n)
      [] value.t = "boolean" -> (IF value.b THEN "true" ELSE "false")

\* An optional field: undefined, or a value.
None == [def |-> FALSE]
Some(v) == [def |-> TRUE, v |-> v]

\* JS truthiness of an optional string field: undefined and "" are falsy.
TruthyString(o) == o.def /\ o.v # ""

\* --------------------------------------------------------- JS objects
\* A Record<string, ...> as the sequence of its own [k, v] entries in
\* property order: array-index keys ("0", "1", ...) in ascending numeric
\* order first, then the other keys in the order of their creation.
MaxIndexKey == 3

IndexKeys == {ToString(n) : n \in 0..MaxIndexKey}

IsIndexKey(k) == k \in IndexKeys

IndexKeyValue(k) == CHOOSE n \in 0..MaxIndexKey : ToString(n) = k

Keys(o) == {o[i].k : i \in 1..Len(o)}

Get(o, k) == o[CHOOSE i \in 1..Len(o) : o[i].k = k].v

InsertAt(o, i, entry) == SubSeq(o, 1, i - 1) \o <<entry>> \o SubSeq(o, i, Len(o))

NewKeyPositionAtEnd(o, k) == Len(o) + 1

\* The position a new key takes among the entries of o.
NewKeyPosition(o, k) ==
    IF IsIndexKey(k)
    THEN 1 + Cardinality({i \in 1..Len(o) :
                 IsIndexKey(o[i].k) /\ IndexKeyValue(o[i].k) < IndexKeyValue(k)})
    ELSE Len(o) + 1

\* o[k] = v: an existing key keeps its place and takes the new value.
Put(o, k, v) ==
    IF k \in Keys(o)
    THEN [i \in 1..Len(o) |-> IF o[i].k = k THEN [k |-> k, v |-> v] ELSE o[i]]
    ELSE InsertAt(o, NewKeyPosition(o, k), [k |-> k, v |-> v])

\* Object.assign(target, from)
RECURSIVE ObjectAssign(_, _)
ObjectAssign(target, from) ==
    IF from = <<>> THEN target
    ELSE ObjectAssign(Put(target, Head(from).k, Head(from).v), Tail(from))

\* The object literal with the given entries, in writing order.
ObjectOf(entries) == ObjectAssign(<<>>, entries)

\* ------------------------------------------------------------ StepSize
\* A text is the sequence of its characters.
DigitChars == {"0", "1", "2", "3", "4", "5", "6", "7", "8", "9"}

DigitValue(c) == CHOOSE n \in 0..9 : ToString(n) = c

\* enum StepSizeUnit, each unit as the characters of its code
Kilometers == <<"k", "m">>
Meters == <<"m">>
Miles == <<"m", "i">>
Feet == <<"f", "t">>

StepSizeUnits == {Kilometers, Meters, Miles, Feet}

Ok(v) == [ok |-> TRUE, v |-> v]
Err(e) == [ok |-> FALSE, error |-> e]

FormatError == "Invalid step size format"
PositiveError == "Step size value must be positive"

\* private constructor(value, unit)
NewStepSize(value, unit) ==
    IF LessOrEqualZero(value) THEN Err(PositiveError)
    ELSE Ok([value |-> value, unit |-> unit])

\* The length of the longest run of digits at the start of text.
RECURSIVE DigitRun(_)
DigitRun(text) ==
    IF text # <<>> /\ Head(text) \in DigitChars THEN 1 + DigitRun(Tail(text)) ELSE 0

Drop(text, n) == SubSeq(text, n + 1, Len(text))

\* text.match(/^(\d+(?:\.\d+)?)(km|m|mi|ft)?$/): the two groups, number and
\* unit (<<>> when the unit group did not take part), or no match. \d+ is
\* greedy and nothing after it can start with a digit, so the first group
\* is the longest digit run, then "." and the longest digit run after it
\* when there is one, and the rest is the unit or empty.
RegexMatch(text) ==
    LET i == DigitRun(text)
        afterInt == Drop(text, i)
        f == IF afterInt # <<>> /\ Head(afterInt) = "." THEN DigitRun(Tail(afterInt)) ELSE 0
        n == IF f > 0 THEN i + 1 + f ELSE i
        rest == Drop(text, n)
    IN IF i > 0 /\ rest \in StepSizeUnits \cup {<<>>}
       THEN [matched |-> TRUE, number |-> SubSeq(text, 1, n), unit |-> rest]
       ELSE [matched |-> FALSE]

RECURSIVE DigitsValue(_)
DigitsValue(ds) ==
    IF ds = <<>> THEN 0 ELSE 10 * DigitsValue(SubSeq(ds, 1, Len(ds) - 1)) + DigitValue(ds[Len(ds)])

\* The number of "0" at the end of the digits ds.
RECURSIVE TrailingZeros(_)
TrailingZeros(ds) ==
    IF ds # <<>> /\ ds[Len(ds)] = "0" THEN 1 + TrailingZeros(SubSeq(ds, 1, Len(ds) - 1)) ELSE 0

\* parseFloat of a text  digits [ "." digits ]
ParseFloat(number) ==
    LET i == DigitRun(number)
        frac == Drop(number, i + 1)
        digits == SubSeq(number, 1, i) \o frac
        z == TrailingZeros(digits)
    IN Dec(DigitsValue(SubSeq(digits, 1, Len(digits) - z)), Len(frac) - z)

ParseAcceptsSign(text) ==
    LET t == IF text # <<>> /\ Head(text) = "-" THEN Tail(text) ELSE text
        match == RegexMatch(t)
    IN IF ~match.matched THEN Err(FormatError)
       ELSE LET v == ParseFloat(match.number)
            IN NewStepSize(IF t = text THEN v ELSE Dec(-v.m, v.e),
                           IF match.unit = <<>> THEN Meters ELSE match.unit)

\* static parse(stepSizeString)
Parse(text) ==
    LET match == RegexMatch(text)
    IN IF ~match.matched THEN Err(FormatError)
       ELSE NewStepSize(ParseFloat(match.number),
                        IF match.unit = <<>> THEN Meters ELSE match.unit)

\* toString(): `${this.value}${this.unit}`
StepSizeToString(stepSize) == NumberToString(stepSize.value) \o Concat(stepSize.unit)

\* The characters of toString().
StepSizeChars(stepSize) == NumberChars(stepSize.value) \o stepSize.unit

\* static Kilometers(value), Meters(value), Miles(value), Feet(value)
StepSizeKilometers(value) == NewStepSize(value, Kilometers)
StepSizeMeters(value) == NewStepSize(value, Meters)
StepSizeMiles(value) == NewStepSize(value, Miles)
StepSizeFeet(value) == NewStepSize(value, Feet)

\* The named constructor of a unit.
Named(unit, value) ==
    CASE unit = Kilometers -> StepSizeKilometers(value)
      [] unit = Meters -> StepSizeMeters(value)
      [] unit = Miles -> StepSizeMiles(value)
      [] unit = Feet -> StepSizeFeet(value)

METERS_PER_UNIT(unit) ==
    CASE unit = Meters -> Dec(1, 0)
      [] unit = Kilometers -> Dec(1000, 0)
      [] unit = Miles -> Dec(160934, 2)
      [] unit = Feet -> Dec(3048, 4)

\* convertTo(targetUnit): the receiver is read, never assigned.
convertTo(this, targetUnit) ==
    IF this.unit = targetUnit THEN NewStepSize(this.value, this.unit)
    ELSE LET valueInMeters == Times(this.value, METERS_PER_UNIT(this.unit))
             convertedValue == Over(valueInMeters, METERS_PER_UNIT(targetUnit))
         IN NewStepSize(convertedValue, targetUnit)

toMeters(this) == convertTo(this, Meters)
toKilometers(this) == convertTo(this, Kilometers)
toMiles(this) == convertTo(this, Miles)
toFeet(this) == convertTo(this, Feet)

\* The accessor of a unit.
ToUnit(this, unit) ==
    CASE unit = Kilometers -> toKilometers(this)
      [] unit = Meters -> toMeters(this)
      [] unit = Miles -> toMiles(this)
      [] unit = Feet -> toFeet(this)

\* -------------------------------------------------------- AudiomSource
\* An IAudiomSource / AudiomSource: source is a string, the other fields are
\* optional; additionalParams is an optional object.
SourceFields == <<"type", "mapType", "name", "url", "rules">>

\* new AudiomSource(config): the fields are copied as they are.
NewAudiomSource(config) ==
    [source |-> config.source, type |-> config.type, mapType |-> config.mapType,
     name |-> config.name, url |-> config.url, rules |-> config.rules,
     additionalParams |-> config.additionalParams]

\* AudiomSource.fromName(sourceName)
fromName(sourceName) ==
    NewAudiomSource([source |-> sourceName, type |-> None, mapType |-> None, name |-> None,
                     url |-> None, rules |-> None, additionalParams |-> None])

\* AudiomSource.fromGeoJsonUrl(url, name)
fromGeoJsonUrl(url, name) ==
    NewAudiomSource([source |-> url, type |-> Some("geojson"), mapType |-> None, name |-> name,
                     url |-> None, rules |-> None, additionalParams |-> None])

\* AudiomSource.fromEsri(config)
fromEsri(config) ==
    NewAudiomSource([source |-> config.source, type |-> Some("esri"), mapType |-> config.mapType,
                     name |-> config.name, url |-> config.url, rules |-> config.rules,
                     additionalParams |-> None])

RECURSIVE SourceAdditionalBare(_, _, _)
SourceAdditionalBare(params, source, entries) ==
    IF entries = <<>> THEN params
    ELSE SourceAdditionalBare(Put(params, Head(entries).k, String(Head(entries).v)),
                              source, Tail(entries))

\* The namespaced entries of the additionalParams of a source.
RECURSIVE SourceAdditional(_, _, _)
SourceAdditional(params, source, entries) ==
    IF entries = <<>> THEN params
    ELSE SourceAdditional(Put(params, source \o "." \o Head(entries).k, String(Head(entries).v)),
                          source, Tail(entries))

\* The namespaced entries of the truthy fields among the first n of SourceFields.
RECURSIVE SourceFieldParams(_, _)
SourceFieldParams(src, n) ==
    IF n = 0 THEN <<>>
    ELSE LET params == SourceFieldParams(src, n - 1)
             field == SourceFields[n]
         IN IF TruthyString(src[field])
            THEN Put(params, src.source \o "." \o field, src[field].v)
            ELSE params

\* AudiomSource.toQueryParams()
SourceToQueryParams(src) ==
    LET params == SourceFieldParams(src, Len(SourceFields))
    IN IF src.additionalParams.def
       THEN SourceAdditional(params, src.source, src.additionalParams.v)
       ELSE params

\* --------------------------------------------------- AudiomEmbedConfig
\* An IAudiomEmbedConfig is a record of optional fields (a missing key and an
\* undefined value read the same). An element of sources is a bare name,
\* [bare |-> TRUE, name], or a descriptor, [bare |-> FALSE, desc].
BareSource(name) == [bare |-> TRUE, name |-> name]
Descriptor(desc) == [bare |-> FALSE, desc |-> desc]

ConfigFields ==
    {"embedId", "apiKey", "sources", "center", "latitude", "longitude", "zoom", "soundpack",
     "demo", "title", "showVisualMap", "heading", "showHeading", "stepSize", "additionalParams"}

\* config.sources.map(source => typeof source === 'string' ? fromName(source) : new AudiomSource(source))
MapSources(sources) ==
    [i \in 1..Len(sources) |->
        IF sources[i].bare THEN fromName(sources[i].name) ELSE NewAudiomSource(sources[i].desc)]

\* The stepSize field of the constructor: a truthy input is parsed when it
\* is a string ([isString |-> TRUE, text]) and kept when it is a StepSize
\* ([isString |-> FALSE, stepSize]); "" and undefined leave it undefined.
ConstructStepSize(input) ==
    IF ~input.def \/ (input.v.isString /\ input.v.text = <<>>) THEN Ok(None)
    ELSE IF input.v.isString
      THEN LET r == Parse(input.v.text) IN IF r.ok THEN Ok(Some(r.v)) ELSE r
    ELSE Ok(Some(input.v.stepSize))

\* new AudiomEmbedConfig(config): the configuration, or the error of parse.
NewAudiomEmbedConfig(config) ==
    LET stepSize == ConstructStepSize(config.stepSize)
    IN IF ~stepSize.ok THEN stepSize
       ELSE Ok([config EXCEPT
                  !.sources = IF @.def THEN Some(MapSources(@.v)) ELSE None,
                  !.stepSize = stepSize.v])

DynamicId == JSStr("dynamic")

\* AudiomEmbedConfig.dynamic(config): { ...config, embedId: 'dynamic' }
dynamic(config) == NewAudiomEmbedConfig([config EXCEPT !.embedId = Some(DynamicId)])

\* { a, b, ...partial }: the keys the partial object holds replace the
\* earlier ones, an undefined value included. partial is [keys, vals].
Spread(base, partial) ==
    [f \in DOMAIN base |-> IF f \in partial.keys THEN partial.vals[f] ELSE base[f]]

EmptyConfig == [f \in ConfigFields |-> None]

\* AudiomEmbedConfig.static(embedId, apiKey, additionalConfig):
\* { embedId, apiKey, ...additionalConfig }
static(embedId, apiKey, additionalConfig) ==
    NewAudiomEmbedConfig(
        Spread([EmptyConfig EXCEPT !.embedId = Some(embedId), !.apiKey = Some(apiKey)],
               additionalConfig))

\* this.sources.map(s => s.source).join(',')
RECURSIVE JoinComma(_)
JoinComma(names) ==
    IF names = <<>> THEN ""
    ELSE IF Len(names) = 1 THEN names[1]
    ELSE names[1] \o "," \o JoinComma(Tail(names))

\* this.sources.forEach(source => Object.assign(params, source.toQueryParams()))
RECURSIVE AssignSources(_, _)
AssignSources(params, sources) ==
    IF sources = <<>> THEN params
    ELSE AssignSources(ObjectAssign(params, SourceToQueryParams(Head(sources))), Tail(sources))

SourceKeySingular(sources) == IF Len(sources) = 1 THEN "source" ELSE "sources"

\* const sourceKey = "sources"
SourceKey(sources) == "sources"

\* toQueryParams, "Required" and "Sources". An undefined apiKey is stored
\* as it is, and reads "undefined" once toUrl puts it in a template.
ParamsSources(c) ==
    LET p1 == Put(<<>>, "apiKey", IF c.apiKey.def THEN c.apiKey.v ELSE "undefined")
    IN IF c.sources.def /\ Len(c.sources.v) > 0
       THEN AssignSources(
              Put(p1, SourceKey(c.sources.v),
                  JoinComma([i \in 1..Len(c.sources.v) |-> c.sources.v[i].source])),
              c.sources.v)
       ELSE p1

\* toQueryParams, "Center coordinates"
ParamsCenter(c, p) ==
    IF c.center.def
    THEN Put(p, "center", NumberToString(c.center.v[1]) \o "," \o NumberToString(c.center.v[2]))
    ELSE LET p1 == IF c.latitude.def THEN Put(p, "latitude", NumberToString(c.latitude.v)) ELSE p
         IN IF c.longitude.def THEN Put(p1, "longitude", NumberToString(c.longitude.v)) ELSE p1

\* toQueryParams, "Optional parameters"
ParamsOptional(c, p) ==
    LET p1 == IF c.zoom.def THEN Put(p, "zoom", NumberToString(c.zoom.v)) ELSE p
        p2 == IF TruthyString(c.soundpack) THEN Put(p1, "soundpack", c.soundpack.v) ELSE p1
        p3 == IF c.demo.def THEN Put(p2, "demo", String(JSBool(c.demo.v))) ELSE p2
        p4 == IF TruthyString(c.title) THEN Put(p3, "title", c.title.v) ELSE p3
        p5 == IF c.showVisualMap.def
              THEN Put(p4, "showVisualMap", String(JSBool(c.showVisualMap.v))) ELSE p4
        p6 == IF c.heading.def THEN Put(p5, "heading", NumberToString(c.heading.v)) ELSE p5
        p7 == IF c.showHeading.def
              THEN Put(p6, "showHeading", String(JSBool(c.showHeading.v))) ELSE p6
    IN IF c.stepSize.def THEN Put(p7, "stepsize", StepSizeToString(c.stepSize.v)) ELSE p7

\* Object.entries(this.additionalParams).forEach(([key, value]) => params[key] = String(value))
RECURSIVE ParamsAdditional(_, _)
ParamsAdditional(p, entries) ==
    IF entries = <<>> THEN p
    ELSE ParamsAdditional(Put(p, Head(entries).k, String(Head(entries).v)), Tail(entries))

\* The parameters before the additionalParams are merged.
ParamsBeforeAdditional(c) == ParamsOptional(c, ParamsCenter(c, ParamsSources(c)))

ToQueryParamsAdditionalFirst(c) ==
    IF c.additionalParams.def
    THEN ObjectAssign(ParamsAdditional(<<>>, c.additionalParams.v), ParamsBeforeAdditional(c))
    ELSE ParamsBeforeAdditional(c)

\* AudiomEmbedConfig.toQueryParams()
ToQueryParams(c) ==
    IF c.additionalParams.def
    THEN ParamsAdditional(ParamsBeforeAdditional(c), c.additionalParams.v)
    ELSE ParamsBeforeAdditional(c)

DefaultBaseUrl == "https://audiom-staging.herokuapp.com"

\* `${this.embedId}`
EmbedIdString(embedId) == IF embedId.def THEN String(embedId.v) ELSE "undefined"

\* Object.entries(params).map(([key, value]) => `${key}=${value}`).join('&')
RECURSIVE QueryString(_)
QueryString(params) ==
    IF params = <<>> THEN ""
    ELSE IF Len(params) = 1 THEN params[1].k \o "=" \o params[1].v
    ELSE params[1].k \o "=" \o params[1].v \o "&" \o QueryString(Tail(params))

\* toUrl(baseUrl)
ToUrl(c, baseUrl) ==
    baseUrl \o "/embed/" \o EmbedIdString(c.embedId) \o "?" \o QueryString(ToQueryParams(c))

\* toUrlWithBase(baseUrl)
ToUrlWithBase(c, baseUrl) == ToUrl(c, baseUrl)

\* ------------------------------------------------------------- actions
SetHandler(h) ==
    /\ listeners' = h.listeners
    /\ visited' = h.visited
    /\ messageListener' = h.messageListener
    /\ subscriptions' = h.subscriptions

NoEvent == [seen |-> FALSE, origin |-> "", data |-> Prim("undefined", 0)]

\* A handler method is called by the embedding page between two events
\* (the record of the last event is dropped then), or by a callback while
\* the dispatch of an event is running.
CallContext ==
    /\ \/ /\ pc = "idle"
          /\ ev' = NoEvent /\ calls' = <<>> /\ thrown' = FALSE /\ ops' = 0
          /\ atEvent' = <<>> /\ interfered' = FALSE
       \/ /\ pc = "callback" /\ ops < MaxOps
          /\ ops' = ops + 1 /\ interfered' = TRUE
          /\ UNCHANGED <<ev, calls, thrown, atEvent>>
    /\ pc' = pc
    /\ UNCHANGED allowedOrigin

Add(l) ==
    /\ CallContext
    /\ SetHandler(addUserPositionListener(Handler, l))
    /\ regOrder' = IF l \in Range(regOrder) THEN regOrder ELSE Append(regOrder, l)
    /\ firstReg' = IF l \in Range(firstReg) THEN firstReg ELSE Append(firstReg, l)

Remove(l) ==
    /\ CallContext
    /\ SetHandler(removeUserPositionListener(Handler, l))
    /\ regOrder' = Filter(regOrder, Callbacks \ {l})
    /\ UNCHANGED firstReg

RemoveAll ==
    /\ CallContext
    /\ SetHandler(removeAllListeners(Handler))
    /\ regOrder' = <<>>
    /\ UNCHANGED firstReg

Dispose ==
    /\ CallContext
    /\ SetHandler(dispose(Handler))
    /\ regOrder' = <<>>
    /\ UNCHANGED firstReg

\* The closure's decision on one event: TRUE iff it goes on to the forEach.
messageListenerAccepts(allowed, origin, data) ==
    /\ ~OriginRejected(allowed, origin)
    /\ isUserPositionMessage(data)

\* window delivers a 'message' event: the closure runs iff it is attached.
Event(origin, data) ==
    /\ pc = "idle"
    /\ ev' = [seen |-> TRUE, origin |-> origin, data |-> data]
    /\ calls' = <<>>
    /\ thrown' = FALSE
    /\ ops' = 0
    /\ interfered' = FALSE
    /\ atEvent' = regOrder
    /\ visited' = 0
    /\ pc' = IF subscriptions > 0 /\ messageListenerAccepts(allowedOrigin, origin, data)
             THEN "forEach" ELSE "idle"
    /\ UNCHANGED <<allowedOrigin, listeners, messageListener, subscriptions, regOrder, firstReg>>

NextListenerFromEnd(h) == h.listeners[Len(h.listeners) - h.visited]

\* The member the forEach visits next.
NextListener(h) == h.listeners[h.visited + 1]

\* this.listeners.forEach: the next member is called with event.data.userPosition.
Invoke ==
    /\ pc = "forEach"
    /\ visited < Len(listeners)
    /\ Len(calls) < MaxCalls
    /\ calls' = Append(calls, [cb |-> NextListener(Handler), arg |-> ev.data.elems])
    /\ visited' = visited + 1
    /\ pc' = "callback"
    /\ UNCHANGED <<allowedOrigin, listeners, messageListener, subscriptions, ev, thrown,
                   ops, regOrder, firstReg, atEvent, interfered>>

ForEachDone ==
    /\ pc = "forEach"
    /\ visited = Len(listeners)
    /\ pc' = "idle"
    /\ visited' = 0
    /\ UNCHANGED <<allowedOrigin, listeners, messageListener, subscriptions, ev, calls, thrown,
                   ops, regOrder, firstReg, atEvent, interfered>>

CallbackReturn ==
    /\ pc = "callback"
    /\ pc' = "forEach"
    /\ UNCHANGED <<allowedOrigin, listeners, messageListener, subscriptions, visited, ev, calls,
                   thrown, ops, regOrder, firstReg, atEvent, interfered>>

\* forEach does not catch: the error leaves the closure, the rest is not called.
CallbackThrow ==
    /\ pc = "callback"
    /\ pc' = "idle"
    /\ thrown' = TRUE
    /\ interfered' = TRUE
    /\ visited' = 0
    /\ UNCHANGED <<allowedOrigin, listeners, messageListener, subscriptions, ev, calls,
                   ops, regOrder, firstReg, atEvent>>

HInit ==
    /\ allowedOrigin \in {NoOrigin} \cup {Origin(s) : s \in {"", "https://a"}}
    /\ listeners = <<>>
    /\ messageListener = FALSE
    /\ subscriptions = 0
    /\ pc = "idle"
    /\ visited = 0
    /\ ev = NoEvent
    /\ calls = <<>>
    /\ thrown = FALSE
    /\ ops = 0
    /\ regOrder = <<>>
    /\ firstReg = <<>>
    /\ atEvent = <<>>
    /\ interfered = FALSE

\* ------------------------------------------------ configuration inputs
NotRun == [ok |-> FALSE, error |-> "not run"]

Entry(k, v) == [k |-> k, v |-> v]

SourceDesc(source, type, mapType, name, url, additionalParams) ==
    Descriptor([source |-> source, type |-> type, mapType |-> mapType, name |-> name,
                url |-> url, rules |-> None, additionalParams |-> additionalParams])

SourcesInputs ==
    { None,
      Some(<<>>),
      Some(<<BareSource("osm")>>),
      Some(<<BareSource("osm"), BareSource("google")>>),
      \* AudiomSource.fromEsri({source: 'units', url: 'https://x', mapType: 'indoor'})
      Some(<<SourceDesc("units", Some("esri"), Some("indoor"), None, Some("https://x"), None),
             BareSource("osm")>>),
      Some(<<SourceDesc("osm", Some("geojson"), None, Some(""), None,
                        Some(ObjectOf(<<Entry("type", JSStr("x")),
                                        Entry("opacity", JSNum(Dec(5, 1)))>>)))>>),
      Some(<<SourceDesc("osm", Some("geojson"), None, Some("A"), None, None),
             SourceDesc("osm", None, None, Some("B"), Some("https://y"), None)>>) }

Location(center, latitude, longitude) ==
    [center |-> center, latitude |-> latitude, longitude |-> longitude]

LocNone == Location(None, None, None)
LocCenter == Location(Some(<<Dec(-1225, 1), Dec(475, 1)>>), Some(Dec(47, 0)), None)
LocLatitude == Location(None, Some(Dec(47, 0)), None)
LocBoth == Location(None, Some(Dec(0, 0)), Some(Dec(-122, 0)))

OptNone ==
    [zoom |-> None, soundpack |-> None, demo |-> None, title |-> None,
     showVisualMap |-> None, heading |-> None, showHeading |-> None]

OptSet ==
    [zoom |-> Some(Dec(15, 0)), soundpack |-> Some("sp"), demo |-> Some(TRUE),
     title |-> Some("T"), showVisualMap |-> Some(TRUE), heading |-> Some(Dec(2, 0)),
     showHeading |-> Some(TRUE)]

\* Every field set to a falsy value.
OptFalsy ==
    [zoom |-> Some(Dec(0, 0)), soundpack |-> Some(""), demo |-> Some(FALSE),
     title |-> Some(""), showVisualMap |-> Some(FALSE), heading |-> Some(Dec(1, 0)),
     showHeading |-> Some(FALSE)]

\* Location and display fields, paired.
DisplayInputs ==
    { <<LocNone, OptNone>>, <<LocCenter, OptSet>>, <<LocLatitude, OptFalsy>>,
      <<LocBoth, OptSet>>, <<LocNone, OptFalsy>> }

StepSizeInputs ==
    { None,
      Some([isString |-> FALSE, stepSize |-> [value |-> Dec(50, 0), unit |-> Meters]]),
      Some([isString |-> TRUE, text |-> <<"5", "k", "m">>]) }

\* The keys toQueryParams itself may set for the inputs above, and others.
AdditionalKeys ==
    { "apiKey", "sources", "source", "osm.type", "osm.name", "units.url", "center", "latitude",
      "longitude", "zoom", "soundpack", "demo", "title", "showVisualMap", "heading",
      "showHeading", "stepsize", "custom", "1" }

AdditionalValue(k) ==
    CASE k \in {"zoom", "latitude", "1"} -> JSNum(Dec(3, 0))
      [] k \in {"demo", "showHeading"} -> JSBool(FALSE)
      [] k = "center" -> JSNum(Dec(-25, 1))
      [] OTHER -> JSStr("x")

AdditionalInputs ==
    { None, Some(<<>>) }
    \cup { Some(ObjectOf(<<Entry(k, AdditionalValue(k))>>)) : k \in AdditionalKeys }
    \cup { Some(ObjectOf(<<Entry("custom", JSStr("c")), Entry("zoom", JSNum(Dec(1, 0)))>>)),
           Some(ObjectOf(<<Entry("b", JSBool(TRUE)), Entry("2", JSStr("two")),
                           Entry("apiKey", JSStr("other")), Entry("1", JSStr("one"))>>)) }

IdKeyInputs ==
    { [embedId |-> Some(JSNum(Dec(7, 0))), apiKey |-> Some("key-in")],
      [embedId |-> None, apiKey |-> Some("key-in")],
      [embedId |-> None, apiKey |-> None] }

ConfigOf(ik, so, di, st, ad) ==
    [embedId |-> ik.embedId, apiKey |-> ik.apiKey, sources |-> so,
     center |-> di[1].center, latitude |-> di[1].latitude, longitude |-> di[1].longitude,
     zoom |-> di[2].zoom, soundpack |-> di[2].soundpack, demo |-> di[2].demo,
     title |-> di[2].title, showVisualMap |-> di[2].showVisualMap,
     heading |-> di[2].heading, showHeading |-> di[2].showHeading,
     stepSize |-> st, additionalParams |-> ad]

\* Step sizes given as strings: the empty string, non-numeric text, an
\* unknown unit suffix, a leading '-', zero, and a fraction with a unit.
StepSizeTexts ==
    { <<>>, <<"M">>, <<"5", "M">>, <<"-", "5">>, <<"0">>, <<"2", ".", "5", "f", "t">> }

StepSizeStrings == { Some([isString |-> TRUE, text |-> t]) : t \in StepSizeTexts }

\* Every combination of the inputs above, and the step size strings with
\* configurations that hold little else.
ConfigInputs ==
    { ConfigOf(ik, so, di, st, ad) :
        ik \in IdKeyInputs, so \in SourcesInputs, di \in DisplayInputs,
        st \in StepSizeInputs, ad \in AdditionalInputs }
    \cup
    { ConfigOf(ik, so, <<LocNone, OptNone>>, st, None) :
        ik \in IdKeyInputs, so \in {None, Some(<<BareSource("osm")>>)}, st \in StepSizeStrings }

StaticIds == {JSNum(Dec(1, 0)), JSNum(Dec(12345, 0))}
StaticKeys == {"test-key"}

\* The keys a Partial<IAudiomEmbedConfig> built from cfg holds: the fields
\* with a value, and with them or not embedId and apiKey (whose value may
\* then be undefined).
PartialKeySets(cfg) ==
    LET optional == {f \in ConfigFields \ {"embedId", "apiKey"} : cfg[f].def}
    IN {optional, optional \cup {"embedId"}, optional \cup {"apiKey"}}

NotMutated == [mutated |-> "none", built |-> EmptyConfig]

\* -------------------------------------------------- configuration actions
Via(by, embedId, apiKey, keys) == [by |-> by, embedId |-> embedId, apiKey |-> apiKey, keys |-> keys]

\* new AudiomEmbedConfig(cfgIn): embedId and apiKey are required fields.
Construct ==
    /\ cvia.by = "none"
    /\ cfgIn.embedId.def /\ cfgIn.apiKey.def
    /\ cres' = NewAudiomEmbedConfig(cfgIn)
    /\ cvia' = Via("new", cfgIn.embedId.v, cfgIn.apiKey.v, {})
    /\ UNCHANGED <<cfgIn, cparams, curl, cown>>

\* AudiomEmbedConfig.dynamic(cfgIn): the input type has no embedId.
Dynamic ==
    /\ cvia.by = "none"
    /\ ~cfgIn.embedId.def /\ cfgIn.apiKey.def
    /\ cres' = dynamic(cfgIn)
    /\ cvia' = Via("dynamic", DynamicId, cfgIn.apiKey.v, {})
    /\ UNCHANGED <<cfgIn, cparams, curl, cown>>

\* AudiomEmbedConfig.static(embedId, apiKey, extra), extra being the keys
\* of cfgIn that the caller passes on.
Static(embedId, apiKey, keys) ==
    /\ cvia.by = "none"
    /\ cres' = static(embedId, apiKey, [keys |-> keys, vals |-> cfgIn])
    /\ cvia' = Via("static", embedId, apiKey, keys)
    /\ UNCHANGED <<cfgIn, cparams, curl, cown>>

CallToQueryParams ==
    /\ cres.ok
    /\ cparams = NotRun
    /\ cparams' = Ok(ToQueryParams(cres.v))
    /\ UNCHANGED <<cfgIn, cvia, cres, curl, cown>>

\* cres.toUrl() or cres.toUrl(baseUrl)
CallToUrl(baseUrl) ==
    /\ cres.ok
    /\ curl = NotRun
    /\ LET base == IF baseUrl.def THEN baseUrl.v ELSE DefaultBaseUrl
       IN curl' = Ok([base |-> base, url |-> ToUrl(cres.v, base), withBase |-> None])
    /\ UNCHANGED <<cfgIn, cvia, cres, cparams, cown>>

\* cres.toUrlWithBase(baseUrl), with the base of the toUrl call before
CallToUrlWithBase ==
    /\ cres.ok
    /\ curl.ok /\ ~curl.v.withBase.def
    /\ curl' = Ok([curl.v EXCEPT !.withBase = Some(ToUrlWithBase(cres.v, curl.v.base))])
    /\ UNCHANGED <<cfgIn, cvia, cres, cparams, cown>>

BaseUrls == {None, Some("https://b")}

UrlStaticId == JSNum(Dec(12345, 0))

\* The caller's objects that the configuration holds by reference.
\* AudiomSource's constructor assigns this.additionalParams =
\* config.additionalParams: source i of the configuration and descriptor i
\* of the input share the mapping. (The descriptor's other fields are
\* copied by value into a new AudiomSource.)
SharesSourceParams(input, i) ==
    /\ input.sources.def /\ i \in 1..Len(input.sources.v)
    /\ ~input.sources.v[i].bare
    /\ input.sources.v[i].desc.additionalParams.def

\* The constructor assigns this.stepSize = config.stepSize when it is no
\* string: the configuration holds the caller's StepSize instance.
SharesStepSize(input) == input.stepSize.def /\ ~input.stepSize.v.isString

\* The caller assigns a field of a source descriptor it passed: desc.name = 'changed'
MutateSourceDescriptor(i) ==
    /\ cres.ok /\ cown.mutated = "none"
    /\ cfgIn.sources.def /\ i \in 1..Len(cfgIn.sources.v) /\ ~cfgIn.sources.v[i].bare
    /\ cfgIn' = [cfgIn EXCEPT !.sources.v[i].desc.name = Some("changed")]
    /\ cown' = [mutated |-> "descriptor", built |-> cres.v]
    /\ UNCHANGED <<cvia, cres, cparams, curl>>

\* The caller assigns an entry of the additionalParams mapping of a
\* descriptor it passed: desc.additionalParams.opacity = 9
MutateSourceParams(i) ==
    /\ cres.ok /\ cown.mutated = "none"
    /\ SharesSourceParams(cfgIn, i)
    /\ LET mapping == Put(cfgIn.sources.v[i].desc.additionalParams.v, "opacity", JSNum(Dec(9, 0)))
       IN /\ cfgIn' = [cfgIn EXCEPT !.sources.v[i].desc.additionalParams = Some(mapping)]
          /\ cres' = [cres EXCEPT !.v.sources.v[i].additionalParams = Some(mapping)]
    /\ cown' = [mutated |-> "additionalParams", built |-> cres.v]
    /\ UNCHANGED <<cvia, cparams, curl>>

\* The caller assigns the fields of the StepSize it passed:
\* stepSize.value = 99; stepSize.unit = StepSizeUnit.Feet
MutateStepSize ==
    /\ cres.ok /\ cown.mutated = "none"
    /\ SharesStepSize(cfgIn)
    /\ LET instance == [value |-> Dec(99, 0), unit |-> Feet]
       IN /\ cfgIn' = [cfgIn EXCEPT !.stepSize.v.stepSize = instance]
          /\ cres' = [cres EXCEPT !.v.stepSize = Some(instance)]
    /\ cown' = [mutated |-> "stepSize", built |-> cres.v]
    /\ UNCHANGED <<cvia, cparams, curl>>

\* The indexes of the sources the caller passed.
SourceIndexes == IF cfgIn.sources.def THEN 1..Len(cfgIn.sources.v) ELSE {}

\* Configurations with source descriptors and step sizes.
OwnedInputs ==
    { ConfigOf(ik, so, <<LocNone, OptNone>>, st, None) :
        ik \in IdKeyInputs, so \in SourcesInputs \ {None, Some(<<>>)}, st \in StepSizeInputs }

OInit ==
    /\ cfgIn \in OwnedInputs
    /\ cvia = Via("none", DynamicId, "", {})
    /\ cres = NotRun
    /\ cparams = NotRun
    /\ curl = NotRun
    /\ cown = NotMutated

CInit ==
    /\ cfgIn \in ConfigInputs
    /\ cvia = Via("none", DynamicId, "", {})
    /\ cres = NotRun
    /\ cparams = NotRun
    /\ curl = NotRun
    /\ cown = NotMutated

CIdle ==
    /\ cfgIn = EmptyConfig
    /\ cvia = Via("none", DynamicId, "", {})
    /\ cres = NotRun
    /\ cparams = NotRun
    /\ curl = NotRun
    /\ cown = NotMutated

\* ------------------------------------------------------ StepSize actions
TextChars == {"0", "1", "5", ".", "-", "k", "m", "i", "f", "t", "M"}

Texts == UNION {[1..n -> TextChars] : n \in 0..MaxTextLen}

\* A call: its name, the unit and the number given, the receiver before
\* and after the call, and (for toString and the parse of its text) the
\* call that returned the receiver.
Op(op, unit, value, before, this, from) ==
    [op |-> op, unit |-> unit, value |-> value, before |-> before, this |-> this, from |-> from]

NoOp == Op("none", <<>>, None, None, None, "none")

CallParse ==
    /\ sres = NotRun
    /\ sres' = Parse(stext)
    /\ UNCHANGED <<stext, sop>>

SInit ==
    /\ stext \in Texts
    /\ sres = NotRun
    /\ sop = NoOp

SIdle ==
    /\ stext = <<>>
    /\ sres = NotRun
    /\ sop = NoOp

\* ---------------------------------------------- StepSize instance actions
\* The numbers given to the named constructors.
NumberInputs ==
    { NaN, Dec(-5, 0), Dec(0, 0), Dec(1, 7), Dec(25, 1), Dec(1500, 0), Dec(1, -21) }

InstanceTexts == { <<"0">>, <<"5", "k", "m">> }

\* StepSize.Kilometers(value), .Meters(value), .Miles(value) or .Feet(value)
CallNamed(unit, value) ==
    /\ sres' = Named(unit, value)
    /\ sop' = Op("named", unit, Some(value), None, None, "none")
    /\ UNCHANGED stext

\* The call that returned the instance the caller holds in sres.
Maker == IF sop.op = "toString" THEN sop.from ELSE sop.op

\* sres.convertTo(targetUnit): the caller goes on with the instance returned.
CallConvertTo(targetUnit) ==
    /\ sres.ok
    /\ sres' = convertTo(sres.v, targetUnit)
    /\ sop' = Op("convertTo", targetUnit, None, Some(sres.v), Some(sres.v), "none")
    /\ UNCHANGED stext

\* sres.toMeters(), .toKilometers(), .toMiles() or .toFeet()
CallToUnit(unit) ==
    /\ sres.ok
    /\ sres' = ToUnit(sres.v, unit)
    /\ sop' = Op("toUnit", unit, None, Some(sres.v), Some(sres.v), "none")
    /\ UNCHANGED stext

\* A finite decimal or NaN. (The digits toString gives a quotient that is
\* no finite decimal are those of its binary64 rounding, and are not modelled.)
HasDigits(x) == IsNaN(x) \/ Den(x) = 1

\* sres.toString()
CallToString ==
    /\ sres.ok
    /\ HasDigits(sres.v.value)
    /\ stext' = StepSizeChars(sres.v)
    /\ sop' = Op("toString", sres.v.unit, None, Some(sres.v), Some(sres.v), Maker)
    /\ UNCHANGED sres

\* StepSize.parse(stext): of the text toString has just returned, or of the
\* caller's own text.
CallParseText ==
    /\ sres' = Parse(stext)
    /\ sop' = IF sop.op = "toString"
              THEN Op("parse", <<>>, None, None, sop.this, sop.from)
              ELSE Op("parse", <<>>, None, None, None, "none")
    /\ UNCHANGED stext

IInit ==
    /\ stext \in InstanceTexts
    /\ sres = NotRun
    /\ sop = NoOp

\* -------------------------------------------------------- source actions
SourceNames == {"osm", "units", ""}

SourceAdditionalInputs ==
    { None, Some(<<>>),
      Some(ObjectOf(<<Entry("type", JSStr("x"))>>)),
      Some(ObjectOf(<<Entry("opacity", JSNum(Dec(5, 1))), Entry("visible", JSBool(TRUE)),
                      Entry("sources", JSStr("s")), Entry("1", JSNum(Dec(1, 0)))>>)) }

SourceInputs ==
    { [source |-> so, type |-> ty, mapType |-> mt, name |-> na, url |-> ur, rules |-> ru,
       additionalParams |-> ad] :
        so \in SourceNames, ty \in {None, Some("TDEI"), Some("")}, mt \in {None, Some("indoor")},
        na \in {None, Some("A"), Some("")}, ur \in {None, Some("https://x")},
        ru \in {None, Some("r.json")}, ad \in SourceAdditionalInputs }

NotBuilt == [by |-> "none", v |-> fromName("")]

Built(by, src) == [by |-> by, v |-> src]

\* new AudiomSource(ain)
ConstructSource ==
    /\ asrc = NotBuilt
    /\ asrc' = Built("new", NewAudiomSource(ain))
    /\ UNCHANGED <<ain, aparams>>

\* AudiomSource.fromName(ain.source)
FromName ==
    /\ asrc = NotBuilt
    /\ asrc' = Built("fromName", fromName(ain.source))
    /\ UNCHANGED <<ain, aparams>>

\* AudiomSource.fromGeoJsonUrl(ain.source, ain.name)
FromGeoJsonUrl ==
    /\ asrc = NotBuilt
    /\ asrc' = Built("fromGeoJsonUrl", fromGeoJsonUrl(ain.source, ain.name))
    /\ UNCHANGED <<ain, aparams>>

\* AudiomSource.fromEsri(ain): url is a required field of the argument.
FromEsri ==
    /\ asrc = NotBuilt
    /\ ain.url.def
    /\ asrc' = Built("fromEsri", fromEsri(ain))
    /\ UNCHANGED <<ain, aparams>>

CallSourceToQueryParams ==
    /\ asrc.by # "none"
    /\ aparams = NotRun
    /\ aparams' = Ok(SourceToQueryParams(asrc.v))
    /\ UNCHANGED <<ain, asrc>>

AInit ==
    /\ ain \in SourceInputs
    /\ asrc = NotBuilt
    /\ aparams = NotRun

AIdle ==
    /\ ain = fromName("")
    /\ asrc = NotBuilt
    /\ aparams = NotRun

\* ------------------------------------------------------- specifications
\* The message handler.
Init == HInit /\ CIdle /\ SIdle /\ AIdle

Next ==
    \/ (\E l \in Callbacks : Add(l)) /\ UNCHANGED <<cvars, svars, avars>>
    \/ (\E l \in Callbacks : Remove(l)) /\ UNCHANGED <<cvars, svars, avars>>
    \/ RemoveAll /\ UNCHANGED <<cvars, svars, avars>>
    \/ Dispose /\ UNCHANGED <<cvars, svars, avars>>
    \/ (\E origin \in Origins, data \in Payloads : Event(origin, data))
          /\ UNCHANGED <<cvars, svars, avars>>
    \/ Invoke /\ UNCHANGED <<cvars, svars, avars>>
    \/ ForEachDone /\ UNCHANGED <<cvars, svars, avars>>
    \/ CallbackReturn /\ UNCHANGED <<cvars, svars, avars>>
    \/ CallbackThrow /\ UNCHANGED <<cvars, svars, avars>>

Spec == Init /\ [][Next]_vars

\* The embed configuration.
ConfigInit == CInit /\ HInit /\ allowedOrigin = NoOrigin /\ SIdle /\ AIdle

ConfigNext ==
    \/ Construct /\ UNCHANGED <<hvars, svars, avars>>
    \/ Dynamic /\ UNCHANGED <<hvars, svars, avars>>
    \/ (\E embedId \in StaticIds, apiKey \in StaticKeys, keys \in PartialKeySets(cfgIn) :
           Static(embedId, apiKey, keys)) /\ UNCHANGED <<hvars, svars, avars>>
    \/ CallToQueryParams /\ UNCHANGED <<hvars, svars, avars>>

ConfigSpec == ConfigInit /\ [][ConfigNext]_vars

\* The embed URL.
UrlNext ==
    \/ Construct /\ UNCHANGED <<hvars, svars, avars>>
    \/ Dynamic /\ UNCHANGED <<hvars, svars, avars>>
    \/ (\E apiKey \in StaticKeys, keys \in PartialKeySets(cfgIn) :
           Static(UrlStaticId, apiKey, keys)) /\ UNCHANGED <<hvars, svars, avars>>
    \/ (\E baseUrl \in BaseUrls : CallToUrl(baseUrl)) /\ UNCHANGED <<hvars, svars, avars>>
    \/ CallToUrlWithBase /\ UNCHANGED <<hvars, svars, avars>>

UrlSpec == ConfigInit /\ [][UrlNext]_vars

\* The embed configuration and the caller's objects.
OwnInit == OInit /\ HInit /\ allowedOrigin = NoOrigin /\ SIdle /\ AIdle

OwnNext ==
    \/ Construct /\ UNCHANGED <<hvars, svars, avars>>
    \/ Dynamic /\ UNCHANGED <<hvars, svars, avars>>
    \/ (\E apiKey \in StaticKeys, keys \in PartialKeySets(cfgIn) :
           Static(UrlStaticId, apiKey, keys)) /\ UNCHANGED <<hvars, svars, avars>>
    \/ (\E i \in SourceIndexes : MutateSourceDescriptor(i)) /\ UNCHANGED <<hvars, svars, avars>>
    \/ (\E i \in SourceIndexes : MutateSourceParams(i)) /\ UNCHANGED <<hvars, svars, avars>>
    \/ MutateStepSize /\ UNCHANGED <<hvars, svars, avars>>
    \/ CallToQueryParams /\ UNCHANGED <<hvars, svars, avars>>
    \/ (\E baseUrl \in BaseUrls : CallToUrl(baseUrl)) /\ UNCHANGED <<hvars, svars, avars>>

OwnSpec == OwnInit /\ [][OwnNext]_vars

\* The step size.
StepInit == SInit /\ HInit /\ allowedOrigin = NoOrigin /\ CIdle /\ AIdle

StepNext ==
    \/ CallParse /\ UNCHANGED <<hvars, cvars, avars>>

StepSpec == StepInit /\ [][StepNext]_vars

\* The step size instances.
InstanceInit == IInit /\ HInit /\ allowedOrigin = NoOrigin /\ CIdle /\ AIdle

InstanceNext ==
    \/ (\E unit \in StepSizeUnits, value \in NumberInputs : CallNamed(unit, value))
          /\ UNCHANGED <<hvars, cvars, avars>>
    \/ (\E targetUnit \in StepSizeUnits : CallConvertTo(targetUnit)) /\ UNCHANGED <<hvars, cvars, avars>>
    \/ (\E unit \in StepSizeUnits : CallToUnit(unit)) /\ UNCHANGED <<hvars, cvars, avars>>
    \/ CallToString /\ UNCHANGED <<hvars, cvars, avars>>
    \/ CallParseText /\ UNCHANGED <<hvars, cvars, avars>>

InstanceSpec == InstanceInit /\ [][InstanceNext]_vars

\* The source descriptor.
SourceInit == AInit /\ HInit /\ allowedOrigin = NoOrigin /\ CIdle /\ SIdle

SourceNext ==
    \/ ConstructSource /\ UNCHANGED <<hvars, cvars, svars>>
    \/ FromName /\ UNCHANGED <<hvars, cvars, svars>>
    \/ FromGeoJsonUrl /\ UNCHANGED <<hvars, cvars, svars>>
    \/ FromEsri /\ UNCHANGED <<hvars, cvars, svars>>
    \/ CallSourceToQueryParams /\ UNCHANGED <<hvars, cvars, svars>>

SourceSpec == SourceInit /\ [][SourceNext]_vars

\* ------------------------------------------------ message handler claims
\* The event's origin is string-equal to the configured filter, or no
\* filter was configured.
PassesFilter == ~allowedOrigin.def \/ ev.origin = allowedOrigin.v

\* The last event has been handled to its end.
Handled == pc = "idle" /\ ev.seen

CallsOf(order) == [i \in 1..Len(order) |-> [cb |-> order[i], arg |-> ev.data.elems]]

\* C1: the handler is subscribed to the window 'message' channel if and only
\* if its callback set is non-empty, after any sequence of add, remove,
\* removeAll and dispose calls.
C1_SubscribedIffNonEmpty ==
    /\ (subscriptions > 0) <=> (listeners # <<>>)
    /\ messageListener <=> (listeners # <<>>)

\* Every callback has been registered and the set is empty again.
C1_Witness ==
    /\ Len(firstReg) = NumCallbacks
    /\ listeners = <<>>
    /\ subscriptions = 0

\* C2: with an origin filter configured, an event whose origin is not
\* string-equal to the filter invokes no callback and raises no error,
\* for every filter string.
C2_ForeignOriginDiscarded ==
    (allowedOrigin.def /\ ev.seen /\ ev.origin # allowedOrigin.v)
        => (calls = <<>> /\ ~thrown)

C4_NoInvocationAfterRemoval ==
    [][Len(calls') = Len(calls) + 1 => calls'[Len(calls')].cb \in Range(regOrder)]_hvars

\* A valid event was dispatched to the remaining callback after another
\* callback had been removed.
C4_Witness ==
    /\ Handled /\ PassesFilter /\ ValidPosition(ev.data) /\ ~interfered
    /\ calls # <<>>
    /\ \E c \in Range(firstReg) \ Range(regOrder) :
           \A i \in 1..Len(calls) : calls[i].cb # c

C6_MalformedIgnored ==
    (ev.seen /\ ~ValidPosition(ev.data)) => (calls = <<>> /\ ~thrown)

\* ------------------------------------------------- configuration claims
\* The source identifiers of the caller's input, in input order.
InputSourceNames ==
    IF cfgIn.sources.def
    THEN [i \in 1..Len(cfgIn.sources.v) |->
             IF cfgIn.sources.v[i].bare THEN cfgIn.sources.v[i].name
             ELSE cfgIn.sources.v[i].desc.source]
    ELSE <<>>

\* What one source of the input writes, in order: an entry '<source>.<field>'
\* for each non-empty field, then one per key of its additionalParams.
InputSourceWrites(src) ==
    IF src.bare THEN <<>>
    ELSE LET d == src.desc
             fields == Filter(SourceFields, {f \in Range(SourceFields) : TruthyString(d[f])})
             extra == IF d.additionalParams.def THEN d.additionalParams.v ELSE <<>>
         IN [i \in 1..Len(fields) |-> Entry(d.source \o "." \o fields[i], d[fields[i]].v)]
            \o [i \in 1..Len(extra) |-> Entry(d.source \o "." \o extra[i].k, String(extra[i].v))]

RECURSIVE InputWrites(_)
InputWrites(sources) ==
    IF sources = <<>> THEN <<>>
    ELSE InputSourceWrites(Head(sources)) \o InputWrites(Tail(sources))

\* The value of the last of the writes w to key k.
LastWritten(w, k) == w[CHOOSE i \in 1..Len(w) : w[i].k = k /\ \A j \in (i + 1)..Len(w) : w[j].k # k].v

\* The keys of the configuration's own additionalParams.
AdditionalKeySet ==
    IF cres.v.additionalParams.def THEN Keys(cres.v.additionalParams.v) ELSE {}

\* C7: additionalParams are merged last: each of its keys maps to the string
\* of its value, whatever the earlier steps set under that key, and every
\* other key keeps the value the earlier steps set.
C7_AdditionalParamsLast ==
    (cparams.ok /\ cres.v.additionalParams.def) =>
        LET p == cparams.v
            ad == cres.v.additionalParams.v
            before == ParamsBeforeAdditional(cres.v)
        IN /\ \A i \in 1..Len(ad) : ad[i].k \in Keys(p) /\ Get(p, ad[i].k) = String(ad[i].v)
           /\ \A k \in Keys(before) \ Keys(ad) : k \in Keys(p) /\ Get(p, k) = Get(before, k)
           /\ Keys(p) = Keys(before) \cup Keys(ad)

\* additionalParams {zoom: 3} replaced the zoom=15 of the configuration.
C7_Witness ==
    /\ cparams.ok /\ cres.v.additionalParams.def
    /\ cres.v.zoom = Some(Dec(15, 0))
    /\ "zoom" \in Keys(cres.v.additionalParams.v)
    /\ Get(cparams.v, "zoom") = "3"
    /\ Get(cparams.v, "apiKey") = cres.v.apiKey.v

\* What the "Sources" step has to leave in the parameters s: with one or
\* more sources the key 'sources' (and no key 'source') holding the
\* identifiers joined by ',' in input order, and each source's namespaced
\* entries, a later source's value replacing an earlier one's under the
\* same key; with no sources or an empty list no 'sources' key.
SourcesSet(s) ==
    LET names == InputSourceNames
        w == IF cfgIn.sources.def THEN InputWrites(cfgIn.sources.v) ELSE <<>>
    IN /\ IF Len(names) > 0
          THEN /\ "sources" \in Keys(s) /\ Get(s, "sources") = JoinComma(names)
               /\ "source" \notin Keys(s)
          ELSE "sources" \notin Keys(s)
       /\ \A i \in 1..Len(w) : w[i].k \in Keys(s) /\ Get(s, w[i].k) = LastWritten(w, w[i].k)
       /\ Keys(s) = {"apiKey"} \cup (IF Len(names) > 0 THEN {"sources"} ELSE {})
                               \cup {w[i].k : i \in 1..Len(w)}

C9_StaticKeepsArguments ==
    (cvia.by = "static" /\ cres.ok) =>
        /\ cres.v.embedId = Some(cvia.embedId)
        /\ cres.v.apiKey = Some(cvia.apiKey)

\* ----------------------------------------------------- step size claims
AllDigits(t) == \A i \in 1..Len(t) : t[i] \in DigitChars

\* The ways to read text as <number>[unit]: i digits, then nothing (f = 0)
\* or "." and f digits, then a unit or nothing.
GrammarSplits(text) ==
    { sp \in (1..Len(text)) \X (0..Len(text)) \X (StepSizeUnits \cup {<<>>}) :
        LET i == sp[1]
            f == sp[2]
            n == IF f = 0 THEN i ELSE i + 1 + f
        IN /\ n + Len(sp[3]) = Len(text)
           /\ AllDigits(SubSeq(text, 1, i))
           /\ f > 0 => (text[i + 1] = "." /\ AllDigits(SubSeq(text, i + 2, n)))
           /\ SubSeq(text, n + 1, Len(text)) = sp[3] }

MatchesGrammar(text) == GrammarSplits(text) # {}

\* The step size a text of the grammar denotes.
Denoted(text) ==
    LET sp == CHOOSE x \in GrammarSplits(text) : TRUE
        digits == SubSeq(text, 1, sp[1]) \o (IF sp[2] = 0 THEN <<>> ELSE SubSeq(text, sp[1] + 2, sp[1] + 1 + sp[2]))
    IN [value |-> Dec(DigitsValue(digits), sp[2]),
        unit |-> IF sp[3] = <<>> THEN Meters ELSE sp[3]]

Parsed == sres # NotRun

\* C10 as stated: parse fails with the format error iff the text does not
\* match <number>[unit]; every matching text is accepted and gives its number
\* and unit (meters when omitted); a leading '-' gives the format error.
C10_ParseAcceptsGrammar ==
    Parsed =>
        /\ (sres = Err(FormatError)) <=> ~MatchesGrammar(stext)
        /\ MatchesGrammar(stext) => sres = Ok(Denoted(stext))
        /\ (stext # <<>> /\ Head(stext) = "-") => sres = Err(FormatError)

\* C10 amended: parse fails with the format error iff the text does not
\* match the grammar; a matching text whose number is greater than zero is
\* accepted and gives its number and unit (meters when omitted); a matching
\* text whose number is zero fails with the 'must be positive' error; a
\* leading '-' gives the format error.
C10_ParseAcceptsPositive ==
    Parsed =>
        /\ (sres = Err(FormatError)) <=> ~MatchesGrammar(stext)
        /\ (MatchesGrammar(stext) /\ Denoted(stext).value.m > 0) => sres = Ok(Denoted(stext))
        /\ (MatchesGrammar(stext) /\ Denoted(stext).value.m = 0) => sres = Err(PositiveError)
        /\ (stext # <<>> /\ Head(stext) = "-") => sres = Err(FormatError)

\* A text with a fraction and a unit was parsed.
C10_Witness ==
    /\ Parsed /\ sres.ok
    /\ sres.v.value.e > 0
    /\ stext[Len(stext)] = "m"
    /\ sres.v.unit = Meters

\* ------------------------------------------------- step size instances
\* C11: every StepSize returned by a named constructor, parse, convertTo or
\* toMeters/toKilometers/toMiles/toFeet has value > 0; a construction with
\* value <= 0 fails with the 'must be positive' error; convertTo returns a
\* new instance of the target unit and leaves the receiver as it was.
C11_PositiveInstances ==
    /\ sres.ok => GreaterThanZero(sres.v.value)
    /\ (sop.op = "named" /\ LessOrEqualZero(sop.value.v)) => sres = Err(PositiveError)
    /\ sop.op \in {"convertTo", "toUnit"} =>
          (sres.ok /\ sres.v.unit = sop.unit /\ sop.this = sop.before)

\* C12: for every positive value v and every unit u, parse of the
\* toString() of the StepSize that the named constructor built for (v, u)
\* succeeds and returns a StepSize of the same value and the same unit.
C12_FormatRoundTrip ==
    (sop.op = "parse" /\ sop.this.def /\ sop.from = "named"
        /\ GreaterThanZero(sop.this.v.value))
        => sres = Ok(sop.this.v)

\* ------------------------------------------- configuration claims, more
\* The stepSize the constructor was given, when it is a string.
StringStepSize == cres # NotRun /\ cfgIn.stepSize.def /\ cfgIn.stepSize.v.isString

\* C13: a string stepSize is parsed with StepSize.parse by the constructor:
\* a string that does not match the grammar (the empty string included)
\* makes the construction fail with the format error; for a string that
\* parse accepts, the configuration's stepSize is the parsed StepSize and
\* 'stepsize' is emitted as its string form.
C13_StringStepSizeParsed ==
    StringStepSize =>
        LET text == cfgIn.stepSize.v.text
            parsed == Parse(text)
        IN /\ ~MatchesGrammar(text) => cres = Err(FormatError)
           /\ parsed.ok =>
                 /\ cres.ok /\ cres.v.stepSize = Some(parsed.v)
                 /\ (cparams.ok /\ "stepsize" \notin AdditionalKeySet) =>
                       /\ "stepsize" \in Keys(cparams.v)
                       /\ Get(cparams.v, "stepsize") = StepSizeToString(parsed.v)

\* ------------------------------------------------------- source claims
\* The key of field or additionalParams key k in the namespace of source.
Namespaced(source, k) == source \o "." \o k

\* C14: toQueryParams() of a source returns one entry '<source>.<field>'
\* for each non-empty field among type, mapType, name, url, rules and one
\* entry '<source>.<key>' for each key of additionalParams, and no other
\* entry; the values are strings: the string of the additionalParams value
\* under each of its keys, the field's value under the other field keys.
\* Every key is '<source>.' followed by a name, so merging the entries into
\* parameters that hold 'apiKey' and 'sources' leaves these two as they were.
C14_SourceParams ==
    aparams.ok =>
        LET src == asrc.v
            p == aparams.v
            ad == IF src.additionalParams.def THEN src.additionalParams.v ELSE <<>>
            fields == {f \in Range(SourceFields) : TruthyString(src[f])}
            base == ObjectOf(<<Entry("apiKey", "key"), Entry("sources", src.source)>>)
            merged == ObjectAssign(base, p)
        IN /\ Keys(p) = {Namespaced(src.source, f) : f \in fields}
                           \cup {Namespaced(src.source, k) : k \in Keys(ad)}
           /\ Cardinality(Keys(p)) = Len(p)
           /\ \A k \in Keys(ad) : Get(p, Namespaced(src.source, k)) = String(Get(ad, k))
           /\ \A f \in fields \ Keys(ad) : Get(p, Namespaced(src.source, f)) = src[f].v
           /\ \A f \in Range(SourceFields) \ (fields \cup Keys(ad)) :
                  Namespaced(src.source, f) \notin Keys(p)
           /\ Get(merged, "apiKey") = "key" /\ Get(merged, "sources") = src.source
           /\ Len(merged) = 2 + Len(p)

\* fromEsri({source: 'units', url: 'https://x', mapType: 'indoor'}) gave
\* units.type, units.mapType and units.url, and nothing else.
C14_Witness ==
    /\ aparams.ok /\ asrc.by = "fromEsri"
    /\ aparams.v = <<Entry("units.type", "esri"), Entry("units.mapType", "indoor"),
                     Entry("units.url", "https://x")>>

\* ---------------------------------------------------------- URL claims
\* What one source of the configuration writes, in order.
SourceWrites(src) ==
    LET fields == Filter(SourceFields, {f \in Range(SourceFields) : TruthyString(src[f])})
        extra == IF src.additionalParams.def THEN src.additionalParams.v ELSE <<>>
    IN [i \in 1..Len(fields) |-> Entry(Namespaced(src.source, fields[i]), src[fields[i]].v)]
       \o [i \in 1..Len(extra) |->
              Entry(Namespaced(src.source, extra[i].k), String(extra[i].v))]

RECURSIVE SourcesWrites(_)
SourcesWrites(sources) ==
    IF sources = <<>> THEN <<>>
    ELSE SourceWrites(Head(sources)) \o SourcesWrites(Tail(sources))

\* Every write of the serialization steps to the parameters of
\* configuration c, as [k, v] in the order of the steps.
StepWrites(c) ==
    <<Entry("apiKey", IF c.apiKey.def THEN c.apiKey.v ELSE "undefined")>>
    \o (IF c.sources.def /\ c.sources.v # <<>>
        THEN <<Entry("sources", JoinComma([i \in 1..Len(c.sources.v) |-> c.sources.v[i].source]))>>
             \o SourcesWrites(c.sources.v)
        ELSE <<>>)
    \o (IF c.center.def
        THEN <<Entry("center", NumberToString(c.center.v[1]) \o "," \o NumberToString(c.center.v[2]))>>
        ELSE (IF c.latitude.def THEN <<Entry("latitude", NumberToString(c.latitude.v))>> ELSE <<>>)
             \o (IF c.longitude.def THEN <<Entry("longitude", NumberToString(c.longitude.v))>> ELSE <<>>))
    \o (IF c.zoom.def THEN <<Entry("zoom", NumberToString(c.zoom.v))>> ELSE <<>>)
    \o (IF TruthyString(c.soundpack) THEN <<Entry("soundpack", c.soundpack.v)>> ELSE <<>>)
    \o (IF c.demo.def THEN <<Entry("demo", IF c.demo.v THEN "true" ELSE "false")>> ELSE <<>>)
    \o (IF TruthyString(c.title) THEN <<Entry("title", c.title.v)>> ELSE <<>>)
    \o (IF c.showVisualMap.def
        THEN <<Entry("showVisualMap", IF c.showVisualMap.v THEN "true" ELSE "false")>> ELSE <<>>)
    \o (IF c.heading.def THEN <<Entry("heading", NumberToString(c.heading.v))>> ELSE <<>>)
    \o (IF c.showHeading.def
        THEN <<Entry("showHeading", IF c.showHeading.v THEN "true" ELSE "false")>> ELSE <<>>)
    \o (IF c.stepSize.def THEN <<Entry("stepsize", StepSizeToString(c.stepSize.v))>> ELSE <<>>)
    \o (IF c.additionalParams.def
        THEN [i \in 1..Len(c.additionalParams.v) |->
                 Entry(c.additionalParams.v[i].k, String(c.additionalParams.v[i].v))]
        ELSE <<>>)

\* The keys of the writes w, each at the place of its first write.
RECURSIVE FirstSetOrder(_, _)
FirstSetOrder(w, seen) ==
    IF w = <<>> THEN <<>>
    ELSE IF Head(w).k \in seen THEN FirstSetOrder(Tail(w), seen)
    ELSE <<Head(w).k>> \o FirstSetOrder(Tail(w), seen \cup {Head(w).k})

\* The index keys among S from n on, ascending.
RECURSIVE AscendingIndexKeys(_, _)
AscendingIndexKeys(S, n) ==
    IF n > MaxIndexKey THEN <<>>
    ELSE (IF ToString(n) \in S THEN <<ToString(n)>> ELSE <<>>) \o AscendingIndexKeys(S, n + 1)

\* The keys in the order of their first write, but the keys that are array
\* indices ("0", "1", ...) first and in ascending numeric order.
IndexKeysFirst(keys) ==
    AscendingIndexKeys(Range(keys), 0) \o Filter(keys, Range(keys) \ IndexKeys)

\* base/embed/<embedId>?k=v&...  for the keys of the writes w in the given
\* order, each with the value written to it last.
UrlOf(base, embedId, w, keys) ==
    base \o "/embed/" \o EmbedIdString(embedId) \o "?"
         \o QueryString([i \in 1..Len(keys) |-> Entry(keys[i], LastWritten(w, keys[i]))])

\* C15 as stated: toUrl(base) is base + '/embed/' + embedId + '?' + the
\* key=value pairs joined with '&', the pairs in the order in which the
\* serialization steps first set each key, for every configuration (the
\* additionalParams keys being arbitrary strings); toUrlWithBase(base)
\* returns the same string.
C15_UrlInStepOrder ==
    curl.ok =>
        LET w == StepWrites(cres.v)
        IN /\ curl.v.url = UrlOf(curl.v.base, cres.v.embedId, w, FirstSetOrder(w, {}))
           /\ curl.v.withBase.def => curl.v.withBase.v = curl.v.url

\* C15 amended: the pairs are in the order in which the steps first set
\* each key, except that the keys that are array indices ("0", "1", ...)
\* come before all others (before apiKey), in ascending numeric order.
C15_UrlInPropertyOrder ==
    curl.ok =>
        LET w == StepWrites(cres.v)
        IN /\ curl.v.url = UrlOf(curl.v.base, cres.v.embedId, w,
                                 IndexKeysFirst(FirstSetOrder(w, {})))
           /\ curl.v.withBase.def => curl.v.withBase.v = curl.v.url

\* A URL whose additionalParams hold array-index keys, a key set by an
\* earlier step and a new key; toUrlWithBase was called too.
C15_Witness ==
    /\ curl.ok /\ curl.v.withBase.def
    /\ curl.v.url = DefaultBaseUrl \o "/embed/dynamic?1=one&2=two&apiKey=other&sources=osm&b=true"

\* ----------------------------------------------------- ownership claims
\* C16: the configuration exclusively owns its sources and stepSize: no
\* change the caller makes, after the construction, to a source descriptor,
\* to a source's additionalParams mapping or to the StepSize it passed
\* changes the configuration's fields or a later result of toQueryParams()
\* and toUrl().
C16_OwnsInputs ==
    (cres.ok /\ cown.mutated # "none") =>
        /\ cres.v = cown.built
        /\ ToQueryParams(cres.v) = ToQueryParams(cown.built)
        /\ cparams.ok => cparams.v = ToQueryParams(cown.built)
        /\ curl.ok => curl.v.url = ToUrl(cown.built, curl.v.base)

\* ------------------------------------------------------ dispatch claims
\* C17: the dispatch of one valid event invokes each callback at most once,
\* also when callbacks call addUserPositionListener,
\* removeUserPositionListener or removeAllListeners on the handler while
\* the forEach is running: no callback occurs twice among the invocations
\* made for one event.
C17_AtMostOnce ==
    \A i, j \in 1..Len(calls) : calls[i].cb = calls[j].cb => i = j

====
